---- MODULE Spec2Model ----
(***************************************************************************)
(* Model of the OpenAI tag-inference job handler (runOpenAI) of the        *)
(* workers package: the handler's synchronous segments between awaits are  *)
(* the actions, the rows of the two tables it writes (bookmarkTags,        *)
(* tagsOnBookmarks) and the storage requests in flight are the state.      *)
(*                                                                         *)
(* JavaScript strings that the code inspects character by character (tag   *)
(* names) are sequences of one-character strings; strings that are only    *)
(* tested for truthiness are TLA+ strings, with Undefined standing for an  *)
(* absent value; absent objects are the record Null.                       *)
(***************************************************************************)
EXTENDS Integers, Sequences, FiniteSets, Bags, TLC

\* ---------------------------------------------------------------- bounds
\* Longest "tags" array an AI response carries in the model.
MaxTags == 2

\* ------------------------------------------------------------ JS values
Undefined == "undefined"
Null == [isNull |-> TRUE]

\* JavaScript falsiness of an optional string: undefined/null or "".
Falsy(s) == s \in {Undefined, ""}

Jobs == {"j1", "j2"}

\* job.id as BullMQ hands it over: absent or a real id.
JobIdValues == {Undefined, "7"}

ApiKeyValues == {Undefined, "", "sk-test"}
EnabledValues == {Undefined, "", "true"}

\* ------------------------------------------------- bookmarks (read only)
\* The bookmark table with the joined link (include: { link: true }). The
\* handler only reads it.
Bookmarks ==
  { [id |-> "b1", userId |-> "u1",
     link |-> [id |-> "b1", url |-> "https://a", description |-> "about a"]],
    [id |-> "b2", userId |-> "u1",
     link |-> [id |-> "b2", url |-> "https://b", description |-> "about b"]],
    [id |-> "b4", userId |-> "u2",
     link |-> [id |-> "b4", url |-> "https://d", description |-> ""]],
    [id |-> "b5", userId |-> "u1",
     link |-> [id |-> "b5", url |-> "https://e", description |-> Undefined]],
    [id |-> "b6", userId |-> "u1", link |-> Null] }

\* job.data values: well-formed requests (one of them for an id that is in
\* no table) and a payload without the bookmarkId field.
JobDataValues ==
  { [bookmarkId |-> b] : b \in {"b1", "b2", "b4", "b5", "b6", "b9"} }
    \cup { [url |-> "https://a"] }

\* ------------------------------------------------------- AI responses
\* Tag texts the model lets the AI answer with.
TagTexts == { <<"a">>, <<"#", "a">>, <<"#", "#", "a">> }

JsonString(s) == [type |-> "string", value |-> s]
JsonNumber == [type |-> "number"]

RECURSIVE SeqsUpTo(_, _)
SeqsUpTo(S, n) ==
  IF n = 0 THEN { <<>> }
  ELSE LET shorter == SeqsUpTo(S, n - 1)
       IN  shorter \cup { Append(s, x) : s \in shorter, x \in S }

\* choices[0].message.content: null, "", text that is no JSON, or JSON text
\* (carried as the value JSON.parse yields for it).
WellFormedContents ==
  { [raw |-> "json",
     value |-> [type |-> "object", hasTags |-> TRUE,
                tags |-> [type |-> "array",
                          items |-> [i \in DOMAIN s |-> JsonString(s[i])]]]]
      : s \in SeqsUpTo(TagTexts, MaxTags) }

MalformedContents ==
  { Null,
    [raw |-> "empty"],
    [raw |-> "text"],
    [raw |-> "json", value |-> [type |-> "array"]],
    [raw |-> "json", value |-> [type |-> "object", hasTags |-> FALSE]],
    [raw |-> "json",
     value |-> [type |-> "object", hasTags |-> TRUE,
                tags |-> JsonString(<<"a">>)]],
    [raw |-> "json",
     value |-> [type |-> "object", hasTags |-> TRUE,
                tags |-> [type |-> "array",
                          items |-> <<JsonString(<<"a">>), JsonNumber>>]]] }

ResponseContents == WellFormedContents \cup MalformedContents


\* ------------------------------------------------------ pure functions
\* Mutant: no fallback for a job without an id.
JobIdOf_NoFallback(id) == id

\* const jobId = job.id || "unknown"
JobIdOf(id) == IF Falsy(id) THEN "unknown" ELSE id

\* new Error(`[openai][${jobId}] ...`): the prefix, the job id and the cause.
HandlerError(jobId, cause) ==
  [source |-> "[openai]", jobId |-> jobId, cause |-> cause]

\* The rejection of prisma.bookmarkTags.create on the (userId, name) unique
\* index: Prisma's own error, which carries no job id.
UniqueConstraintError == [source |-> "prisma", code |-> "P2002"]

\* zOpenAIRequestSchema.safeParse(job.data).success
RequestSafeParseSuccess(data) == "bookmarkId" \in DOMAIN data

\* prisma.bookmark.findUnique({ where: { id }, include: { link: true } })
FetchBookmark(linkId) ==
  IF \E b \in Bookmarks : b.id = linkId
  THEN CHOOSE b \in Bookmarks : b.id = linkId
  ELSE Null

\* JSON.parse(response): throws on text that is no JSON.
JsonParse(content) ==
  IF content.raw = "json"
  THEN [ok |-> TRUE, value |-> content.value]
  ELSE [ok |-> FALSE]

\* openAIResponseSchema.parse(v): z.object({ tags: z.array(z.string()) })
OpenAIResponseSchemaParse(v) ==
  IF /\ v.type = "object"
     /\ v.hasTags
     /\ v.tags.type = "array"
     /\ \A i \in DOMAIN v.tags.items : v.tags.items[i].type = "string"
  THEN [ok |-> TRUE,
        tags |-> [i \in DOMAIN v.tags.items |-> v.tags.items[i].value]]
  ELSE [ok |-> FALSE]

\* Mutant: every leading "#" is stripped, not only the first.
RECURSIVE StripHashtag_All(_)
StripHashtag_All(t) == IF Len(t) > 0 /\ t[1] = "#" THEN StripHashtag_All(Tail(t)) ELSE t

\* t.startsWith("#") ? t.slice(1) : t
StripHashtag(t) == IF Len(t) > 0 /\ t[1] = "#" THEN Tail(t) ELSE t

\* The try block of inferTags: parse, validate, strip. ok = FALSE is the
\* catch branch.
ParseTags(content) ==
  LET parsed == JsonParse(content) IN
  IF ~parsed.ok THEN [ok |-> FALSE]
  ELSE LET checked == OpenAIResponseSchemaParse(parsed.value) IN
       IF ~checked.ok THEN [ok |-> FALSE]
       ELSE [ok |-> TRUE,
             tags |-> [i \in DOMAIN checked.tags |-> StripHashtag(checked.tags[i])]]

\* tags.filter((t) => !existingTagSet.has(t))
RECURSIVE FilterNew(_, _)
FilterNew(tags, existingTagSet) ==
  IF tags = <<>> THEN <<>>
  ELSE LET rest == FilterNew(Tail(tags), existingTagSet) IN
       IF Head(tags) \in existingTagSet THEN rest ELSE <<Head(tags)>> \o rest

Range(s) == { s[i] : i \in DOMAIN s }

\* The orders in which findMany may return a set of rows.
Orderings(S) ==
  { s \in [1..Cardinality(S) -> S] : \A i, k \in DOMAIN s : i # k => s[i] # s[k] }


\* ------------------------------------------------------------- state
VARIABLES
  env,              \* process.env: OPENAI_API_KEY and OPENAI_ENABLED
  bookmarkTags,     \* rows of the tag table: [id, name, userId]
  tagsOnBookmarks,  \* bag of association rows: [tagId, bookmarkId, attachedBy]
  nextId,           \* the id the next created tag row gets
  jobs,             \* each invocation of runOpenAI: its position and locals
  inflight,         \* create requests handed to storage and not yet settled
  aiCalls,          \* history: chat-completion calls each invocation issued
  writes,           \* history: rows each invocation's requests wrote
  lookup            \* history: the tag table as each invocation's findMany saw it

vars ==
  <<env, bookmarkTags, tagsOnBookmarks, nextId, jobs, inflight, aiCalls, writes,
    lookup>>

\* Tag rows that exist before the first job runs: user u2 has the tag "a",
\* user u1 may have it too.
InitialTagTables ==
  { { [id |-> 2, name |-> <<"a">>, userId |-> "u2"] },
    { [id |-> 1, name |-> <<"a">>, userId |-> "u1"],
      [id |-> 2, name |-> <<"a">>, userId |-> "u2"] } }

IdleJob ==
  [pc |-> "idle", id |-> Undefined, data |-> Null, bookmark |-> Null,
   response |-> Null, tags |-> <<>>, existingTags |-> <<>>, newTags |-> <<>>,
   newTagObjects |-> <<>>, tagIds |-> <<>>, error |-> Null]

Init ==
  /\ env \in [OPENAI_API_KEY : ApiKeyValues, OPENAI_ENABLED : EnabledValues]
  /\ bookmarkTags \in InitialTagTables
  /\ tagsOnBookmarks = EmptyBag
  /\ nextId = 3
  /\ jobs = [j \in Jobs |-> IdleJob]
  /\ inflight = {}
  /\ aiCalls = [j \in Jobs |-> 0]
  /\ writes = [j \in Jobs |-> [tags |-> {}, assocs |-> EmptyBag]]
  /\ lookup = [j \in Jobs |-> {}]

Finished(j) == jobs[j].pc \in {"returned", "thrown"}

Throw(job, err) == [job EXCEPT !.pc = "thrown", !.error = err]

\* The requests connectTags hands to storage: one per tag id.
ConnectRequests(j, bookmarkId, tagIds) ==
  { [job |-> j, op |-> "tagsOnBookmarks.create", idx |-> i,
     data |-> [tagId |-> tagIds[i], bookmarkId |-> bookmarkId, attachedBy |-> "ai"]]
      : i \in DOMAIN tagIds }

\* The requests createTags hands to storage: one per entry of newTags.
CreateRequests(j, newTags, userId) ==
  { [job |-> j, op |-> "bookmarkTags.create", idx |-> i,
     data |-> [name |-> newTags[i], userId |-> userId]]
      : i \in DOMAIN newTags }

\* Mutant: the ids of the new tag rows are left out.
TagIdsOf_ExistingOnly(existingTags, newTagObjects) ==
  [i \in DOMAIN existingTags |-> existingTags[i].id]

\* existingTags.map((t) => t.id).concat(newTagObjects.map((t) => t.id))
TagIdsOf(existingTags, newTagObjects) ==
  [i \in DOMAIN existingTags |-> existingTags[i].id]
    \o [i \in DOMAIN newTagObjects |-> newTagObjects[i].id]

\* The handler from the return of createTags' Promise.all on: createTags
\* returns the ids and connectTags issues one association create per id. An
\* empty id list makes connectTags' Promise.all resolve at once.
AfterCreateTags(j, job, newTagObjects) ==
  LET tagIds == TagIdsOf(job.existingTags, newTagObjects)
      reqs == ConnectRequests(j, job.data.bookmarkId, tagIds)
  IN  [job |-> [job EXCEPT !.newTagObjects = newTagObjects,
                           !.tagIds = tagIds,
                           !.pc = IF reqs = {} THEN "returned" ELSE "connectTags"],
       reqs |-> reqs]

\* Mutant: the gate with && in place of ||.
NotConfigured_BothUnset == Falsy(env.OPENAI_API_KEY) /\ Falsy(env.OPENAI_ENABLED)

\* !process.env.OPENAI_API_KEY || !process.env.OPENAI_ENABLED
NotConfigured == Falsy(env.OPENAI_API_KEY) \/ Falsy(env.OPENAI_ENABLED)

\* Mutant: only an absent description is refused, an empty one passes.
NoDescription_AbsentOnly(link) == link.description = Undefined

\* const linkDescription = link?.description; !linkDescription
NoDescription(link) == Falsy(link.description)

\* Mutant: the payload is validated before the configuration gate.
RunOpenAI_ValidateFirst(j, id, data) ==
  /\ jobs[j].pc = "idle"
  /\ LET job == [jobs[j] EXCEPT !.id = id, !.data = data]
         jobId == JobIdOf(id)
     IN  jobs' = [jobs EXCEPT ![j] =
           IF ~RequestSafeParseSuccess(data)
           THEN Throw(job, HandlerError(jobId, "Got malformed job request"))
           ELSE IF NotConfigured
           THEN [job EXCEPT !.pc = "returned"]
           ELSE [job EXCEPT !.pc = "fetchBookmark"]]
  /\ UNCHANGED <<env, bookmarkTags, tagsOnBookmarks, nextId, inflight, aiCalls, writes, lookup>>

\* runOpenAI is invoked with a job: everything up to the first await.
RunOpenAI(j, id, data) ==
  /\ jobs[j].pc = "idle"
  /\ LET job == [jobs[j] EXCEPT !.id = id, !.data = data]
         jobId == JobIdOf(id)
     IN  jobs' = [jobs EXCEPT ![j] =
           IF NotConfigured
           THEN [job EXCEPT !.pc = "returned"]
           ELSE IF ~RequestSafeParseSuccess(data)
           THEN Throw(job, HandlerError(jobId, "Got malformed job request"))
           ELSE [job EXCEPT !.pc = "fetchBookmark"]]
  /\ UNCHANGED <<env, bookmarkTags, tagsOnBookmarks, nextId, inflight, aiCalls, writes, lookup>>

\* fetchBookmark resolves: the two checks of runOpenAI, then inferTags up to
\* the chat-completion call.
FetchBookmarkDone(j) ==
  /\ jobs[j].pc = "fetchBookmark"
  /\ LET job == jobs[j]
         jobId == JobIdOf(job.id)
         bookmark == FetchBookmark(job.data.bookmarkId)
         fetched == [job EXCEPT !.bookmark = bookmark]
     IN  IF bookmark = Null
         THEN /\ jobs' = [jobs EXCEPT ![j] =
                   Throw(fetched, HandlerError(jobId, "bookmark was not found"))]
              /\ UNCHANGED aiCalls
         ELSE IF bookmark.link = Null
         THEN /\ jobs' = [jobs EXCEPT ![j] =
                   Throw(fetched, HandlerError(jobId, "bookmark doesn't have a link"))]
              /\ UNCHANGED aiCalls
         ELSE IF NoDescription(bookmark.link)
         THEN /\ jobs' = [jobs EXCEPT ![j] =
                   Throw(fetched, HandlerError(jobId, "No description found for link"))]
              /\ UNCHANGED aiCalls
         ELSE /\ jobs' = [jobs EXCEPT ![j] = [fetched EXCEPT !.pc = "chatCompletion"]]
              /\ aiCalls' = [aiCalls EXCEPT ![j] = @ + 1]
  /\ UNCHANGED <<env, bookmarkTags, tagsOnBookmarks, nextId, inflight, writes, lookup>>

\* The chat completion resolves with some message content: the rest of
\* inferTags, then createTags up to its findMany.
ChatCompletionDone(j, content) ==
  /\ jobs[j].pc = "chatCompletion"
  /\ LET jobId == JobIdOf(jobs[j].id)
         job == [jobs[j] EXCEPT !.response = content]
     IN  jobs' = [jobs EXCEPT ![j] =
           IF content = Null \/ content.raw = "empty"
           THEN Throw(job, HandlerError(jobId, "Got no message content from OpenAI"))
           ELSE LET parsed == ParseTags(content) IN
                IF ~parsed.ok
                THEN Throw(job, HandlerError(jobId, "Failed to parse JSON response from OpenAI"))
                ELSE [job EXCEPT !.tags = parsed.tags, !.pc = "findMany"]]
  /\ UNCHANGED <<env, bookmarkTags, tagsOnBookmarks, nextId, inflight, aiCalls, writes, lookup>>

\* Mutant: the lookup without the userId condition.
ExistingTagRows_AnyUser(tags, userId) ==
  { t \in bookmarkTags : t.name \in Range(tags) }

\* The rows findMany selects: the user's tags whose name is in the list.
ExistingTagRows(tags, userId) ==
  { t \in bookmarkTags : t.userId = userId /\ t.name \in Range(tags) }

\* findMany resolves with the user's matching tags in some order: the new
\* names are filtered out and one create per new name is issued.
FindManyDone(j) ==
  /\ jobs[j].pc = "findMany"
  /\ \E existingTags \in Orderings(ExistingTagRows(jobs[j].tags, jobs[j].bookmark.userId)) :
     LET job == jobs[j]
         userId == job.bookmark.userId
         existingTagSet == { existingTags[i].name : i \in DOMAIN existingTags }
         newTags == FilterNew(job.tags, existingTagSet)
         found == [job EXCEPT !.existingTags = existingTags, !.newTags = newTags]
     IN  IF newTags = <<>>
         THEN LET next == AfterCreateTags(j, found, <<>>) IN
              /\ jobs' = [jobs EXCEPT ![j] = next.job]
              /\ inflight' = inflight \cup next.reqs
         ELSE /\ jobs' = [jobs EXCEPT ![j] =
                   [found EXCEPT !.pc = "createTags",
                                 !.newTagObjects = [i \in DOMAIN newTags |-> Null]]]
              /\ inflight' = inflight \cup CreateRequests(j, newTags, userId)
  /\ lookup' = [lookup EXCEPT ![j] = bookmarkTags]
  /\ UNCHANGED <<env, bookmarkTags, tagsOnBookmarks, nextId, aiCalls, writes>>


\* ----------------------------------------------------- storage settles
TagCreatesOf(j) == { r \in inflight : r.job = j /\ r.op = "bookmarkTags.create" }
ConnectsOf(j) == { r \in inflight : r.job = j /\ r.op = "tagsOnBookmarks.create" }

\* The unique index of the tag table on (userId, name).
UniqueViolation(data) ==
  \E t \in bookmarkTags : t.userId = data.userId /\ t.name = data.name

\* Storage performs one tag create. The row is written whether or not the
\* invocation still waits for it; when it was the last one createTags waits
\* for, the handler goes on to connectTags.
CreateTagDone(r) ==
  /\ r \in inflight
  /\ r.op = "bookmarkTags.create"
  /\ ~UniqueViolation(r.data)
  /\ LET row == [id |-> nextId, name |-> r.data.name, userId |-> r.data.userId]
         job == jobs[r.job]
         objs == [job.newTagObjects EXCEPT ![r.idx] = row]
     IN  /\ bookmarkTags' = bookmarkTags \cup {row}
         /\ nextId' = nextId + 1
         /\ writes' = [writes EXCEPT ![r.job].tags = @ \cup {row}]
         /\ IF job.pc # "createTags"
            THEN /\ jobs' = jobs
                 /\ inflight' = inflight \ {r}
            ELSE IF TagCreatesOf(r.job) # {r}
            THEN /\ jobs' = [jobs EXCEPT ![r.job].newTagObjects = objs]
                 /\ inflight' = inflight \ {r}
            ELSE LET next == AfterCreateTags(r.job, job, objs) IN
                 /\ jobs' = [jobs EXCEPT ![r.job] = next.job]
                 /\ inflight' = (inflight \ {r}) \cup next.reqs
  /\ UNCHANGED <<env, tagsOnBookmarks, aiCalls, lookup>>

\* Storage rejects one tag create on the unique index: Promise.all rejects
\* with it and the error leaves runOpenAI; the sibling requests stay with
\* storage.
CreateTagRejected(r) ==
  /\ r \in inflight
  /\ r.op = "bookmarkTags.create"
  /\ UniqueViolation(r.data)
  /\ inflight' = inflight \ {r}
  /\ jobs' = IF jobs[r.job].pc = "createTags"
             THEN [jobs EXCEPT ![r.job] = Throw(@, UniqueConstraintError)]
             ELSE jobs
  /\ UNCHANGED <<env, bookmarkTags, tagsOnBookmarks, nextId, aiCalls, writes, lookup>>

\* Storage performs one association create; after the last one connectTags
\* and with it runOpenAI return.
ConnectDone(r) ==
  /\ r \in inflight
  /\ r.op = "tagsOnBookmarks.create"
  /\ tagsOnBookmarks' = tagsOnBookmarks (+) SetToBag({r.data})
  /\ writes' = [writes EXCEPT ![r.job].assocs = @ (+) SetToBag({r.data})]
  /\ inflight' = inflight \ {r}
  /\ jobs' = IF ConnectsOf(r.job) = {r}
             THEN [jobs EXCEPT ![r.job].pc = "returned"]
             ELSE jobs
  /\ UNCHANGED <<env, bookmarkTags, nextId, aiCalls, lookup>>

\* ------------------------------------------------------ specifications
\* The order in which the worker takes the jobs off the queue.
Queue == <<"j1", "j2">>

\* The worker takes the next job of the queue when the invocation for the
\* one before it has ended.
Invoke(j, id, data) ==
  /\ \E i \in DOMAIN Queue :
       /\ Queue[i] = j
       /\ \A m \in 1..(i - 1) : Finished(Queue[m])
  /\ RunOpenAI(j, id, data)

Next ==
  \/ \E j \in Jobs, id \in JobIdValues, data \in JobDataValues : Invoke(j, id, data)
  \/ \E j \in Jobs : FetchBookmarkDone(j)
  \/ \E j \in Jobs, content \in ResponseContents : ChatCompletionDone(j, content)
  \/ \E j \in Jobs : FindManyDone(j)
  \/ \E r \in inflight : CreateTagDone(r)
  \/ \E r \in inflight : CreateTagRejected(r)
  \/ \E r \in inflight : ConnectDone(r)

Spec == Init /\ [][Next]_vars

\* Two invocations in flight at once (two workers, or a worker concurrency
\* above one).
NextConcurrent ==
  \/ \E j \in Jobs, id \in JobIdValues, data \in JobDataValues : RunOpenAI(j, id, data)
  \/ \E j \in Jobs : FetchBookmarkDone(j)
  \/ \E j \in Jobs, content \in ResponseContents : ChatCompletionDone(j, content)
  \/ \E j \in Jobs : FindManyDone(j)
  \/ \E r \in inflight : CreateTagDone(r)
  \/ \E r \in inflight : CreateTagRejected(r)
  \/ \E r \in inflight : ConnectDone(r)

SpecConcurrent == Init /\ [][NextConcurrent]_vars


\* ================================================================ claims
NoWrites == [tags |-> {}, assocs |-> EmptyBag]
RequestsOf(j) == { r \in inflight : r.job = j }
Invoked(j) == jobs[j].pc # "idle"
KeyOrFlagUnset ==
  \/ env.OPENAI_API_KEY \in {Undefined, ""}
  \/ env.OPENAI_ENABLED \in {Undefined, ""}
WellFormedJob(j) == jobs[j].data \in { [bookmarkId |-> b] : b \in {"b1", "b2", "b4", "b5", "b6", "b9"} }
MalformedRequestError(j) ==
  /\ jobs[j].pc = "thrown"
  /\ jobs[j].error.source = "[openai]"
  /\ jobs[j].error.cause = "Got malformed job request"
  /\ jobs[j].error.jobId = (IF jobs[j].id = "7" THEN "7" ELSE "unknown")

\* C1: while the API key or the enabled flag is unset, every invocation of
\* runOpenAI, whatever its payload, has returned without an error, no chat
\* completion was called, no request was handed to storage and both tables
\* are as they were before.
C1_UnconfiguredIsSilentNoOp ==
  KeyOrFlagUnset =>
    /\ \A j \in Jobs :
         /\ jobs[j].pc \in {"idle", "returned"}
         /\ jobs[j].error = Null
         /\ aiCalls[j] = 0
         /\ writes[j] = NoWrites
    /\ inflight = {}
    /\ bookmarkTags \in InitialTagTables
    /\ tagsOnBookmarks = EmptyBag

\* C1 witness: unconfigured, and both a malformed and a well-formed payload
\* have been handled by returning.
C1_Witness ==
  /\ KeyOrFlagUnset
  /\ \E j, k \in Jobs :
       /\ jobs[j].pc = "returned" /\ ~WellFormedJob(j)
       /\ jobs[k].pc = "returned" /\ WellFormedJob(k)

\* The bookmarks of the table without a link, or whose link has an empty or
\* absent description.
LacksLinkOrDescription(j) == jobs[j].data.bookmarkId \in {"b4", "b5", "b6"}

\* C2: a configured invocation with a well-formed job for a bookmark that
\* has no link, or whose link has an empty or absent description, never
\* calls the chat completion and never hands a create to storage, and once
\* its bookmark lookup has resolved it has thrown a handler error.
C2_NoLinkOrDescriptionThrowsBeforeAI ==
  \A j \in Jobs :
    (Invoked(j) /\ ~KeyOrFlagUnset /\ WellFormedJob(j) /\ LacksLinkOrDescription(j)) =>
      /\ aiCalls[j] = 0
      /\ writes[j] = NoWrites
      /\ RequestsOf(j) = {}
      /\ jobs[j].pc \in {"fetchBookmark", "thrown"}
      /\ jobs[j].pc = "thrown" => jobs[j].error.source = "[openai]"

\* C2 witness: one invocation threw on a bookmark without a link and another
\* on a link whose description is empty.
C2_Witness ==
  \E j, k \in Jobs :
    /\ jobs[j].pc = "thrown" /\ jobs[j].bookmark # Null /\ jobs[j].bookmark.link = Null
    /\ jobs[k].pc = "thrown" /\ jobs[k].bookmark # Null /\ jobs[k].bookmark.link # Null
    /\ jobs[k].bookmark.link.description = ""
    /\ aiCalls[j] = 0 /\ aiCalls[k] = 0

\* C9 as stated: a malformed payload makes the invocation throw the
\* job-id-prefixed malformed-request error, configured or not.
C9_MalformedPayloadAlwaysThrows ==
  \A j \in Jobs : (Invoked(j) /\ ~WellFormedJob(j)) => MalformedRequestError(j)

\* C9 as amended: the configuration gate comes first. A malformed payload
\* makes the invocation throw the job-id-prefixed malformed-request error
\* when the API key and the enabled flag are set, and makes it return
\* silently when one of them is unset; either way nothing else has happened.
C9_GateThenValidate ==
  \A j \in Jobs :
    (Invoked(j) /\ ~WellFormedJob(j)) =>
      /\ IF KeyOrFlagUnset
         THEN jobs[j].pc = "returned" /\ jobs[j].error = Null
         ELSE MalformedRequestError(j)
      /\ jobs[j].bookmark = Null
      /\ aiCalls[j] = 0
      /\ writes[j] = NoWrites

\* C9 witness: a malformed payload was refused by a configured handler.
C9_Witness ==
  /\ ~KeyOrFlagUnset
  /\ \E j \in Jobs : ~WellFormedJob(j) /\ MalformedRequestError(j)


\* ---------------------------------------------------------------- C3
Distinct(s) == \A i, k \in DOMAIN s : i # k => s[i] # s[k]
UserOf(j) == jobs[j].bookmark.userId
LookedUp(j) == lookup[j] # {}
AssociationsFor(j, ids) ==
  { [tagId |-> id, bookmarkId |-> jobs[j].data.bookmarkId, attachedBy |-> "ai"] : id \in ids }

\* C3 as stated: an invocation that threw has left no tag row and no
\* association row in storage, and one that returned after its lookup has
\* created every new tag and associated every resulting id.
C3_AllOrNothing ==
  \A j \in Jobs :
    /\ jobs[j].pc = "thrown" => writes[j] = NoWrites
    /\ (jobs[j].pc = "returned" /\ LookedUp(j)) =>
         /\ Cardinality(writes[j].tags) = Len(jobs[j].newTags)
         /\ writes[j].assocs = SetToBag(AssociationsFor(j, Range(jobs[j].tagIds)))

\* ---------------------------------------------------------------- C4
UserHad(j, name) == \E t \in lookup[j] : t.userId = UserOf(j) /\ t.name = name
HadIds(j) ==
  { t.id : t \in { u \in lookup[j] : u.userId = UserOf(j) /\ u.name \in Range(jobs[j].tags) } }

\* C4: once createTags has looked up the user's tags, the creates it issued
\* are exactly one per listed name the user did not have in that lookup and
\* none for a name the user had; what it returns are the ids of the user's
\* matching rows of the lookup together with the ids of the rows its creates
\* wrote; and connectTags writes, for the job's bookmark, one association
\* per returned id, each attached by "ai", and nothing else.
C4_CreateOnlyNewAndConnectAll ==
  \A j \in Jobs :
    LookedUp(j) =>
      LET job == jobs[j] IN
      /\ \A i \in DOMAIN job.tags :
           (job.tags[i] \in Range(job.newTags)) <=> ~UserHad(j, job.tags[i])
      /\ Range(job.newTags) \subseteq Range(job.tags)
      /\ \A r \in TagCreatesOf(j) :
           r.data = [name |-> job.newTags[r.idx], userId |-> UserOf(j)]
      /\ \A t \in writes[j].tags :
           t.userId = UserOf(j) /\ t.name \in Range(job.newTags)
      /\ Cardinality(TagCreatesOf(j)) + Cardinality(writes[j].tags) <= Len(job.newTags)
      /\ job.pc \in {"connectTags", "returned"} =>
           /\ Cardinality(writes[j].tags) = Len(job.newTags)
           /\ Range(job.tagIds) = HadIds(j) \cup { t.id : t \in writes[j].tags }
           /\ Distinct(job.tagIds)
           /\ { r.data : r \in ConnectsOf(j) } \cup BagToSet(writes[j].assocs)
                = AssociationsFor(j, Range(job.tagIds))
           /\ \A row \in BagToSet(writes[j].assocs) : CopiesIn(row, writes[j].assocs) = 1
      /\ job.pc = "returned" =>
           /\ writes[j].assocs = SetToBag(AssociationsFor(j, Range(job.tagIds)))
           /\ \A row \in AssociationsFor(j, Range(job.tagIds)) : BagIn(row, tagsOnBookmarks)
      /\ job.pc \in {"createTags", "thrown"} => writes[j].assocs = EmptyBag

\* C4 witness: the user had "a"; the job inferred "a" and "#a", created only
\* "#a" and associated both ids with the bookmark.
C4_Witness ==
  \E j \in Jobs :
    /\ jobs[j].pc = "returned"
    /\ jobs[j].tags = << <<"a">>, <<"#", "a">> >>
    /\ UserHad(j, <<"a">>)
    /\ jobs[j].newTags = << <<"#", "a">> >>
    /\ Len(jobs[j].tagIds) = 2
    /\ BagCardinality(writes[j].assocs) = 2

\* ---------------------------------------------------------------- C5
\* C5 as stated: within one job at most one tag create is issued per
\* (userId, name): the names createTags issues creates for are pairwise
\* different.
C5_OneCreatePerName ==
  \A j \in Jobs : LookedUp(j) => Distinct(jobs[j].newTags)

\* ---------------------------------------------------------------- C6
ForeignRow(j) ==
  \E i \in DOMAIN jobs[j].newTags :
    \E t \in bookmarkTags \ writes[j].tags :
      t.userId = UserOf(j) /\ t.name = jobs[j].newTags[i]

\* C6: the tag creates of a job settle in any order. No association create
\* is issued while a tag create of the job is unsettled; a job waiting in
\* createTags or connectTags always has a request with storage; a job whose
\* new names are pairwise different is failed by storage only when a row for
\* one of its names was written by someone else; and a job that returned
\* has, for every new name, the row it created in the tag table and that
\* row's association with the bookmark in the association table.
C6_AnyCompletionOrder ==
  \A j \in Jobs :
    LET job == jobs[j] IN
    /\ ConnectsOf(j) # {} =>
         /\ TagCreatesOf(j) = {}
         /\ \A i \in DOMAIN job.newTags : job.newTagObjects[i] \in bookmarkTags
    /\ job.pc = "createTags" => TagCreatesOf(j) # {}
    /\ job.pc = "connectTags" => ConnectsOf(j) # {}
    /\ (job.pc = "thrown" /\ job.error = UniqueConstraintError) =>
         ~Distinct(job.newTags) \/ ForeignRow(j)
    /\ (job.pc = "returned" /\ LookedUp(j)) =>
         \A i \in DOMAIN job.newTags :
           /\ job.newTagObjects[i] \in bookmarkTags
           /\ job.newTagObjects[i].name = job.newTags[i]
           /\ job.newTagObjects[i].userId = UserOf(j)
           /\ BagIn([tagId |-> job.newTagObjects[i].id,
                     bookmarkId |-> job.data.bookmarkId,
                     attachedBy |-> "ai"], tagsOnBookmarks)

\* C6 witness: a job with two new names returned, the create of the second
\* name having settled before the create of the first.
C6_Witness ==
  \E j \in Jobs :
    /\ jobs[j].pc = "returned"
    /\ Len(jobs[j].newTags) = 2
    /\ jobs[j].newTagObjects[2].id < jobs[j].newTagObjects[1].id
    /\ BagCardinality(writes[j].assocs) = 2

\* ---------------------------------------------------------------- C7
Answered(j) == aiCalls[j] = 1 /\ jobs[j].pc # "chatCompletion"

\* C7: when the chat completion answered with content that is missing,
\* empty, no JSON, or JSON without a "tags" array of strings, the invocation
\* has thrown a handler error that carries the job's id ("unknown" for a job
\* without one), and no create was handed to storage.
C7_MalformedResponseThrows ==
  \A j \in Jobs :
    (Answered(j) /\ jobs[j].response \in MalformedContents) =>
      /\ jobs[j].pc = "thrown"
      /\ jobs[j].error.source = "[openai]"
      /\ jobs[j].error.jobId = (IF jobs[j].id = "7" THEN "7" ELSE "unknown")
      /\ jobs[j].error.cause \in
           {"Got no message content from OpenAI", "Failed to parse JSON response from OpenAI"}
      /\ writes[j] = NoWrites
      /\ RequestsOf(j) = {}
      /\ ~LookedUp(j)

\* C7 witness: a job without an id threw on JSON that has no "tags" key.
C7_Witness ==
  \E j \in Jobs :
    /\ Answered(j)
    /\ jobs[j].response = [raw |-> "json", value |-> [type |-> "object", hasTags |-> FALSE]]
    /\ jobs[j].id = Undefined
    /\ jobs[j].pc = "thrown"
    /\ jobs[j].error.jobId = "unknown"

\* ---------------------------------------------------------------- C8
ResponseItems(j) == jobs[j].response.value.tags.items
StartsWithHash(t) == Len(t) >= 1 /\ t[1] = "#"
DropFirst(t) == SubSeq(t, 2, Len(t))
OneHashRemoved(j) ==
  /\ Len(jobs[j].tags) = Len(ResponseItems(j))
  /\ \A i \in DOMAIN jobs[j].tags :
       jobs[j].tags[i] = IF StartsWithHash(ResponseItems(j)[i].value)
                         THEN DropFirst(ResponseItems(j)[i].value)
                         ELSE ResponseItems(j)[i].value
  /\ \A r \in TagCreatesOf(j) : r.data.name \in Range(jobs[j].tags)
  /\ \A t \in writes[j].tags : t.name \in Range(jobs[j].tags)

C10_ConcurrentJobsShareNewTag ==
  \A j, k \in Jobs :
    \A n \in { StripHashtag(t) : t \in TagTexts } :
      ( /\ j # k
        /\ Finished(j) /\ Finished(k)
        /\ LookedUp(j) /\ LookedUp(k)
        /\ UserOf(j) = UserOf(k)
        /\ n \in Range(jobs[j].tags) /\ n \in Range(jobs[k].tags)
        /\ Distinct(jobs[j].tags) /\ Distinct(jobs[k].tags)
        /\ ~UserHad(j, n) \/ ~UserHad(k, n) ) =>
          /\ jobs[j].pc = "returned" /\ jobs[k].pc = "returned"
          /\ \E t \in bookmarkTags :
               /\ t.userId = UserOf(j) /\ t.name = n
               /\ \A u \in bookmarkTags : (u.userId = t.userId /\ u.name = n) => u = t
               /\ t.id \in Range(jobs[j].tagIds)
               /\ t.id \in Range(jobs[k].tagIds)

====
